---------------------------- MODULE Spec2Model ----------------------------
(***************************************************************************)
(* Model of the accessibility tooling of watershed-campground:             *)
(*   src/scripts/contrast-checker.py  (manual contrast checker)            *)
(*   src/accessibility-audit.py       (axe-core page audit)                *)
(*                                                                         *)
(* Python strings are TLA+ strings, taken apart with Len and SubSeq.       *)
(* Python floats are fixed-point integers; the unit is stated at each      *)
(* definition.  A Python exception is the value Raise(type).               *)
(***************************************************************************)
EXTENDS Integers, Sequences, FiniteSets, TLC

(***************************************************************************)
(* Python str primitives used by the scripts.                              *)
(***************************************************************************)
Char(s, i) == SubSeq(s, i, i)

\* s[i : i + len(pat)] == pat
MatchAt(s, i, pat) ==
    /\ i + Len(pat) - 1 <= Len(s)
    /\ SubSeq(s, i, i + Len(pat) - 1) = pat

\* pat in s   (pat is never empty here)
Contains(s, pat) == \E i \in 1..Len(s) : MatchAt(s, i, pat)

RECURSIVE ReplaceFrom(_, _, _, _)
ReplaceFrom(s, i, old, new) ==
    IF i > Len(s) THEN ""
    ELSE IF MatchAt(s, i, old)
         THEN new \o ReplaceFrom(s, i + Len(old), old, new)
         ELSE Char(s, i) \o ReplaceFrom(s, i + 1, old, new)

\* s.replace(old, new): every non-overlapping occurrence, left to right
Replace(s, old, new) == ReplaceFrom(s, 1, old, new)

RECURSIVE SplitFrom(_, _, _, _)
SplitFrom(s, i, cur, sep) ==
    IF i > Len(s) THEN <<cur>>
    ELSE IF MatchAt(s, i, sep)
         THEN <<cur>> \o SplitFrom(s, i + Len(sep), "", sep)
         ELSE SplitFrom(s, i + 1, cur \o Char(s, i), sep)

\* s.split(sep): always at least one part
Split(s, sep) == SplitFrom(s, 1, "", sep)

RECURSIVE LStrip(_)
LStrip(s) == IF Len(s) > 0 /\ Char(s, 1) = " " THEN LStrip(SubSeq(s, 2, Len(s))) ELSE s

RECURSIVE RStrip(_)
RStrip(s) ==
    IF Len(s) > 0 /\ Char(s, Len(s)) = " " THEN RStrip(SubSeq(s, 1, Len(s) - 1)) ELSE s

\* s.strip()
Strip(s) == LStrip(RStrip(s))

DigitChars == <<"0", "1", "2", "3", "4", "5", "6", "7", "8", "9">>

IsDigit(c) == \E d \in 1..10 : DigitChars[d] = c

DigitVal(c) == (CHOOSE d \in 1..10 : DigitChars[d] = c) - 1

AllDigits(s) == \A i \in 1..Len(s) : IsDigit(Char(s, i))

\* s.isdigit()
IsDigitStr(s) == Len(s) > 0 /\ AllDigits(s)

RECURSIVE DigitsVal(_)
DigitsVal(s) ==
    IF Len(s) = 0 THEN 0
    ELSE 10 * DigitsVal(SubSeq(s, 1, Len(s) - 1)) + DigitVal(Char(s, Len(s)))

Raise(type) == [kind |-> "raise", v |-> type]

IsRaise(x) == x.kind = "raise"

Unsigned(t) ==
    IF Len(t) > 0 /\ Char(t, 1) \in {"+", "-"} THEN SubSeq(t, 2, Len(t)) ELSE t

Sign(t) == IF Len(t) > 0 /\ Char(t, 1) = "-" THEN -1 ELSE 1

int_digits(sign, u) ==
    IF IsDigitStr(u) THEN [kind |-> "int", v |-> sign * DigitsVal(u)]
    ELSE Raise("ValueError")

int_stripped(t) == int_digits(Sign(t), Unsigned(t))

\* int(s): surrounding blanks and one sign are accepted, then decimal digits only;
\* anything else is a ValueError.  [kind |-> "int", v |-> n]
py_int(s) == int_stripped(Strip(s))

float_digits(sign, ip, fp) ==
    IF AllDigits(ip) /\ AllDigits(fp) /\ Len(ip) + Len(fp) > 0
    THEN [kind |-> "float", m |-> sign * DigitsVal(ip \o fp), e |-> Len(fp)]
    ELSE Raise("ValueError")

float_parts(sign, p) ==
    IF Len(p) <= 2 THEN float_digits(sign, p[1], IF Len(p) = 2 THEN p[2] ELSE "")
    ELSE Raise("ValueError")

float_stripped(t) == float_parts(Sign(t), Split(Unsigned(t), "."))

\* float(s) for plain decimal notation: blanks, one sign, digits with at most one
\* point and at least one digit.  The value is m / 10^e, kept exact:
\* [kind |-> "float", m |-> digits as integer, e |-> number of decimals]
py_float(s) == float_stripped(Strip(s))

RECURSIVE Pow10(_)
Pow10(n) == IF n = 0 THEN 1 ELSE 10 * Pow10(n - 1)

\* f >= h / 100 for a parsed float f and a literal given in hundredths
FloatGE(f, h) == f.m * 100 >= h * Pow10(f.e)

(***************************************************************************)
(* get_luminance, get_contrast_ratio                                       *)
(***************************************************************************)
\* ((c/255 + 0.055) / 1.055) ** 2.4 for c = 11..255, in units of 1e-5, rounded to
\* nearest; entry i is channel value i + 10.
Gamma24 ==
    << 335, 368, 402, 439, 478, 518, 561, 605, 651, 700,
       750, 802, 857, 913, 972, 1033, 1096, 1161, 1229, 1298,
       1370, 1444, 1521, 1600, 1681, 1764, 1850, 1938, 2029, 2122,
       2217, 2315, 2416, 2519, 2624, 2732, 2843, 2956, 3071, 3190,
       3310, 3434, 3560, 3689, 3820, 3955, 4092, 4231, 4374, 4519,
       4667, 4817, 4971, 5127, 5286, 5448, 5613, 5781, 5951, 6125,
       6301, 6480, 6663, 6848, 7036, 7227, 7421, 7619, 7819, 8022,
       8228, 8438, 8650, 8866, 9084, 9306, 9531, 9759, 9990, 10224,
       10462, 10702, 10946, 11193, 11444, 11697, 11954, 12214, 12477, 12744,
       13014, 13287, 13563, 13843, 14126, 14413, 14703, 14996, 15293, 15593,
       15896, 16203, 16513, 16827, 17144, 17465, 17789, 18116, 18447, 18782,
       19120, 19462, 19807, 20156, 20508, 20864, 21223, 21586, 21953, 22323,
       22697, 23074, 23455, 23840, 24228, 24620, 25016, 25415, 25818, 26225,
       26636, 27050, 27468, 27889, 28315, 28744, 29177, 29614, 30054, 30499,
       30947, 31399, 31855, 32314, 32778, 33245, 33716, 34191, 34670, 35153,
       35640, 36131, 36625, 37124, 37626, 38133, 38643, 39157, 39676, 40198,
       40724, 41254, 41789, 42327, 42869, 43415, 43966, 44520, 45079, 45641,
       46208, 46778, 47353, 47932, 48515, 49102, 49693, 50289, 50888, 51492,
       52100, 52712, 53328, 53948, 54572, 55201, 55834, 56471, 57112, 57758,
       58408, 59062, 59720, 60383, 61050, 61721, 62396, 63076, 63760, 64448,
       65141, 65837, 66539, 67244, 67954, 68669, 69387, 70110, 70838, 71569,
       72306, 73046, 73791, 74540, 75294, 76052, 76815, 77582, 78354, 79130,
       79910, 80695, 81485, 82279, 83077, 83880, 84687, 85499, 86316, 87137,
       87962, 88792, 89627, 90466, 91310, 92158, 93011, 93869, 94731, 95597,
       96469, 97345, 98225, 99110, 100000 >>

\* One channel c in 0..255, linearised, in units of 1e-5:
\*   x = c / 255;  x / 12.92 if x <= 0.03928 else ((x + 0.055) / 1.055) ** 2.4
\* x <= 0.03928 is c * 100000 <= 3928 * 255, and x / 12.92 * 1e5 is
\* c * 1000000 / 32946, rounded to nearest.
\* (mutant) every channel divided by 12.92, the power branch left out
Linearize_low_only(c) == (2 * c * 1000000 + 32946) \div (2 * 32946)

\* (mutant) the power 2.4 left out of the upper branch
Linearize_no_power(c) ==
    IF c * 100000 <= 3928 * 255
    THEN (2 * c * 1000000 + 32946) \div (2 * 32946)
    ELSE ((c * 100000 + 5500 * 255) * 40) \div 10761

Linearize(c) ==
    IF c * 100000 <= 3928 * 255
    THEN (2 * c * 1000000 + 32946) \div (2 * 32946)
    ELSE Gamma24[c - 10]

\* 0.2126 * r + 0.7152 * g + 0.0722 * b, in units of 1e-6 (0 .. 1000000)
get_luminance(r, g, b) ==
    (2126 * Linearize(r) + 7152 * Linearize(g) + 722 * Linearize(b) + 500) \div 1000

Max2(a, b) == IF a >= b THEN a ELSE b

Min2(a, b) == IF a <= b THEN a ELSE b

\* (lighter + 0.05) / (darker + 0.05) as the exact fraction num / den of the two
\* fixed-point luminances (0.05 is 50000 units of 1e-6).
\* (mutant) the first colour's luminance over the second's, whichever is lighter
contrast_of_unordered(l1, l2) ==
    [kind |-> "ratio", num |-> l1 + 50000, den |-> l2 + 50000]

\* (mutant) the first colour taken for the darker one
contrast_of_first_darker(l1, l2) ==
    [kind |-> "ratio", num |-> Max2(l1, l2) + 50000, den |-> l1 + 50000]

\* (mutant) 0.5 instead of 0.05 added to the darker luminance
contrast_of_offset_typo(l1, l2) ==
    [kind |-> "ratio", num |-> Max2(l1, l2) + 50000, den |-> Min2(l1, l2) + 500000]

contrast_of(l1, l2) == [kind |-> "ratio", num |-> Max2(l1, l2) + 50000, den |-> Min2(l1, l2) + 50000]

get_contrast_ratio(r1, g1, b1, r2, g2, b2) ==
    contrast_of(get_luminance(r1, g1, b1), get_luminance(r2, g2, b2))

\* ratio >= h / 100
RatioGE(ratio, h) == ratio.num * 100 >= h * ratio.den

\* round(ratio, 2), in hundredths
Round2(ratio) == (200 * ratio.num + ratio.den) \div (2 * ratio.den)

(***************************************************************************)
(* parse_rgb                                                               *)
(***************************************************************************)
None == [kind |-> "none", v |-> <<>>]

IsNone(x) == x.kind = "none"

\* tuple(int(p.strip()) for p in parts): the first element that fails raises
TupleCons(h, t) ==
    IF IsRaise(h) THEN h
    ELSE IF IsRaise(t) THEN t
    ELSE [kind |-> "tuple", v |-> <<h.v>> \o t.v]

RECURSIVE IntTuple(_)
IntTuple(parts) ==
    IF Len(parts) = 0 THEN [kind |-> "tuple", v |-> <<>>]
    ELSE TupleCons(py_int(Strip(parts[1])), IntTuple(Tail(parts)))

Prefix(sq, n) == SubSeq(sq, 1, Min2(n, Len(sq)))

\* parts[i] for i in range(3) with fewer than three parts: the parts there are
\* get converted first, then the missing one is an IndexError
IndexErrorAfter(t) == IF IsRaise(t) THEN t ELSE Raise("IndexError")

\* tuple(int(parts[i].strip()) for i in range(3))
rgba_tuple(parts) ==
    IF Len(parts) < 3 THEN IndexErrorAfter(IntTuple(parts)) ELSE IntTuple(Prefix(parts, 3))

\* (mutant) any alpha below 1 taken for transparent
rgba_alpha_below_one(parts, alpha) ==
    IF IsRaise(alpha) THEN alpha
    ELSE IF alpha.m < Pow10(alpha.e) THEN None
    ELSE rgba_tuple(parts)

\* float(parts[3].strip()) == 0 gives None
rgba_alpha(parts, alpha) ==
    IF IsRaise(alpha) THEN alpha
    ELSE IF alpha.m = 0 THEN None
    ELSE rgba_tuple(parts)

rgba_parts(parts) ==
    IF Len(parts) >= 4 THEN rgba_alpha(parts, py_float(Strip(parts[4])))
    ELSE rgba_tuple(parts)

parse_rgba_branch(color_string) ==
    rgba_parts(Split(Replace(Replace(color_string, "rgba(", ""), ")", ""), ","))

parse_rgb_branch(color_string) ==
    IntTuple(Prefix(Split(Replace(Replace(color_string, "rgb(", ""), ")", ""), ","), 3))

\* [kind |-> "none"], [kind |-> "tuple", v |-> <<r, g, b>>] or Raise(type)
parse_rgb(color_string) ==
    IF color_string = "" \/ color_string = "rgba(0, 0, 0, 0)" THEN None
    ELSE IF Contains(color_string, "rgba") THEN parse_rgba_branch(color_string)
    ELSE IF Contains(color_string, "rgb") THEN parse_rgb_branch(color_string)
    ELSE None

(***************************************************************************)
(* check_element_contrast                                                  *)
(*                                                                         *)
(* What the browser shows for one selector is the list of elements that    *)
(* match it, in document order.  Each element carries what the driver      *)
(* returns for it: is_visible(), whether evaluate() faults, the computed   *)
(* styles, and the computed backgrounds of its ancestors from the parent   *)
(* up to the root.                                                         *)
(***************************************************************************)
El(color, backgroundColor, ancestors, fontSize, fontWeight) ==
    [visible |-> TRUE, fault |-> FALSE,
     color |-> color, backgroundColor |-> backgroundColor, ancestors |-> ancestors,
     fontSize |-> fontSize, fontWeight |-> fontWeight, text |-> "Sample"]

Hidden(e) == [e EXCEPT !.visible = FALSE]

Faulty(e) == [e EXCEPT !.fault = TRUE]

\* The script evaluated on a transparent element: the first ancestor whose
\* computed background is non-empty and differs from the string
\* 'rgba(0, 0, 0, 0)', else white.
RECURSIVE parent_background(_)
parent_background(ancestors) ==
    IF Len(ancestors) = 0 THEN "rgb(255, 255, 255)"
    ELSE IF Head(ancestors) # "" /\ Head(ancestors) # "rgba(0, 0, 0, 0)"
         THEN Head(ancestors)
         ELSE parent_background(Tail(ancestors))

\* `if not bg_color`: None, or an empty tuple
Falsy(x) == IsNone(x) \/ Len(x.v) = 0

\* (mutant) strict comparisons: > 24, > 18.66, > 700
is_large_text_strict(font_size, font_weight) ==
    (font_size.m * 100 > 2400 * Pow10(font_size.e))
    \/ (font_size.m * 100 > 1866 * Pow10(font_size.e) /\ font_weight > 700)

\* font_size >= 24 or (font_size >= 18.66 and font_weight >= 700)
is_large_text(font_size, font_weight) ==
    FloatGE(font_size, 2400) \/ (FloatGE(font_size, 1866) /\ font_weight >= 700)

\* 3.0 if is_large else 4.5, in hundredths
min_ratio_for(is_large) == IF is_large THEN 300 ELSE 450

\* (mutant) the verdict taken from the ratio as it is stored, rounded
passes_check_rounded(ratio, min_ratio) == Round2(ratio) >= min_ratio

\* ratio >= min_ratio
passes_check(ratio, min_ratio) == RatioGE(ratio, min_ratio)

\* int(fontWeight) if fontWeight.isdigit() else 400
font_weight_of(fontWeight) == IF IsDigitStr(fontWeight) THEN DigitsVal(fontWeight) ELSE 400

ErrorResult(selector, e) == [kind |-> "error", selector |-> selector, error |-> e.v]

\* The dictionary returned for a measured element.  contrastRatio and required
\* are in hundredths.
check_dict(selector, description, styles, ratio, is_large, min_ratio) ==
    [kind |-> "check",
     selector |-> selector,
     description |-> description,
     text |-> Prefix(styles.text, 50),
     color |-> styles.color,
     backgroundColor |-> styles.backgroundColor,
     fontSize |-> styles.fontSize,
     fontWeight |-> styles.fontWeight,
     contrastRatio |-> Round2(ratio),
     required |-> min_ratio,
     passes |-> passes_check(ratio, min_ratio),
     isLargeText |-> is_large]

classified(selector, description, styles, ratio, is_large) ==
    check_dict(selector, description, styles, ratio, is_large, min_ratio_for(is_large))

with_font(selector, description, styles, ratio, font_size, font_weight) ==
    IF IsRaise(font_size) THEN ErrorResult(selector, font_size)
    ELSE classified(selector, description, styles, ratio,
                    is_large_text(font_size, font_weight))

\* From the ratio on: font size and weight, classification, threshold, verdict.
CheckResult(selector, description, styles, ratio) ==
    with_font(selector, description, styles, ratio,
              py_float(Replace(styles.fontSize, "px", "")),
              font_weight_of(styles.fontWeight))

own_or_parent(styles, own) ==
    IF IsRaise(own) THEN own
    ELSE IF Falsy(own) THEN parse_rgb(parent_background(styles.ancestors))
    ELSE own

\* The background the contrast is measured against: the element's own when
\* parse_rgb gives a colour for it, else parse_rgb of what the ancestor walk returns.
resolve_background(styles) == own_or_parent(styles, parse_rgb(styles.backgroundColor))

\* (mutant) an element without a colour or a background reported as a failing check
unresolved_result_failing(selector, description, styles) ==
    [kind |-> "check",
     selector |-> selector,
     description |-> description,
     text |-> Prefix(styles.text, 50),
     color |-> styles.color,
     backgroundColor |-> styles.backgroundColor,
     fontSize |-> styles.fontSize,
     fontWeight |-> styles.fontWeight,
     contrastRatio |-> 100,
     required |-> 450,
     passes |-> FALSE,
     isLargeText |-> FALSE]

\* `return None` behind `if color and bg_color`: an element whose text colour or
\* background has no colour gives no dictionary.
unresolved_result(selector, description, styles) == None

\* get_contrast_ratio(*color, *bg_color): six arguments or a TypeError
ratio_of(c, b) ==
    IF Len(c) + Len(b) # 6 THEN Raise("TypeError")
    ELSE get_contrast_ratio(c[1], c[2], c[3], b[1], b[2], b[3])

measured(selector, description, styles, ratio) ==
    IF ratio.kind = "raise" THEN ErrorResult(selector, ratio)
    ELSE CheckResult(selector, description, styles, ratio)

check_styles(selector, description, styles, color, bg_color) ==
    IF IsRaise(color) THEN ErrorResult(selector, color)
    ELSE IF IsRaise(bg_color) THEN ErrorResult(selector, bg_color)
    ELSE IF Falsy(color) \/ Falsy(bg_color)
         THEN unresolved_result(selector, description, styles)
    ELSE measured(selector, description, styles, ratio_of(color.v, bg_color.v))

first_visible(selector, description, styles) ==
    IF styles.fault THEN ErrorResult(selector, Raise("Error"))
    ELSE check_styles(selector, description, styles,
                      parse_rgb(styles.color), resolve_background(styles))

\* (mutant) the visibility of the element is not looked at
check_element_contrast_any(matches, selector, description) ==
    IF Len(matches) = 0 THEN None
    ELSE first_visible(selector, description, matches[1])

\* matches: the elements matching the selector.  The result is None, an error
\* dictionary, or a check dictionary.
check_element_contrast(matches, selector, description) ==
    IF Len(matches) = 0 \/ ~matches[1].visible THEN None
    ELSE first_visible(selector, description, matches[1])

(***************************************************************************)
(* The pages the browser can show.                                         *)
(***************************************************************************)
Samples ==
    << \* 1: dark on dark, normal text
       << El("rgb(6, 37, 28)", "rgb(13, 69, 56)", <<>>, "16px", "400") >>,
       \* 2: white on black, bold but small
       << El("rgb(255, 255, 255)", "rgb(0, 0, 0)", <<>>, "16px", "700") >>,
       \* 3: large text whose ratio 2.998 rounds to 3.0
       << El("rgb(89, 89, 89)", "rgb(0, 0, 0)", <<>>, "24px", "400") >>,
       \* 4: transparent element under transparent ancestors
       << El("rgb(0, 0, 0)", "rgba(0, 0, 0, 0)",
             <<"rgba(0, 0, 0, 0)", "rgba(0, 0, 0, 0)">>, "18.66px", "700") >>,
       \* 5: a transparent white parent in front of a black grandparent
       << El("rgb(255, 255, 255)", "rgba(0, 0, 0, 0)",
             <<"rgba(255, 255, 255, 0)", "rgb(0, 0, 0)">>, "18.66px", "699") >>,
       \* 6: every ancestor transparent, one of them as transparent white
       << El("rgb(0, 0, 0)", "rgba(0, 0, 0, 0)",
             <<"rgba(0, 0, 0, 0)", "rgba(255, 255, 255, 0)">>, "18.65px", "700") >>,
       \* 7: transparent text
       << El("rgba(0, 0, 0, 0)", "rgb(255, 255, 255)", <<>>, "16px", "400") >>,
       \* 8: the selector matches nothing
       << >>,
       \* 9: a hidden first match before a visible one
       << Hidden(El("rgb(0, 0, 0)", "rgb(255, 255, 255)", <<>>, "16px", "400")),
          El("rgb(0, 0, 0)", "rgb(255, 255, 255)", <<>>, "16px", "400") >>,
       \* 10: the driver faults while reading the styles
       << Faulty(El("rgb(0, 0, 0)", "rgb(255, 255, 255)", <<>>, "16px", "400")) >>,
       \* 11: a colour in another colour space
       << El("color(srgb 1 0 0)", "rgb(255, 255, 255)", <<>>, "16px", "400") >>,
       \* 12: normal text whose ratio 4.498 rounds to 4.5; keyword weight
       << El("rgb(119, 119, 119)", "rgb(7, 7, 7)", <<>>, "23.99px", "bold") >>,
       \* 13: translucent own background, bold above 18.66px
       << El("rgb(0, 0, 0)", "rgba(13, 69, 56, 0.5)", <<"rgb(255, 255, 255)">>,
             "23.99px", "700") >>,
       \* 14: nearest opaque ancestor behind a transparent parent
       << El("rgb(255, 255, 255)", "rgba(0, 0, 0, 0)",
             <<"rgba(0, 0, 0, 0)", "rgb(13, 69, 56)", "rgb(255, 255, 255)">>,
             "32px", "400") >>,
       \* 15: a font size that is not in px
       << El("rgb(0, 0, 0)", "rgb(255, 255, 255)", <<>>, "1.2em", "400") >>,
       \* 16: grey on white just below 4.5
       << El("rgb(119, 119, 119)", "rgb(255, 255, 255)", <<>>, "18.6667px", "400") >>,
       \* 17: only hidden elements match
       << Hidden(El("rgb(0, 0, 0)", "rgb(255, 255, 255)", <<>>, "16px", "400")),
          Hidden(El("rgb(6, 37, 28)", "rgb(13, 69, 56)", <<>>, "24px", "700")) >>,
       \* 18: the selector matches nothing
       << >> >>

\* A page is what its four selectors match: a window of four consecutive samples.
Dom(k) == [i \in 1..4 |-> Samples[((k + i - 2) % Len(Samples)) + 1]]

Doms == {Dom(k) : k \in 1..Len(Samples)}

\* What the axe-core scan of a page can return as its violations, in its order.
Violation(id, impact, nodes) == [id |-> id, impact |-> impact, nodes |-> nodes]

ScanOutputs ==
    { << >>,
      << Violation("color-contrast", "serious", 3) >>,
      << Violation("image-alt", "critical", 1) >>,
      << Violation("color-contrast-enhanced", "serious", 2),
         Violation("color-contrast", "serious", 1) >>,
      << Violation("label", "critical", 2), Violation("color-contrast", "serious", 5),
         Violation("region", "moderate", 4), Violation("image-alt", "critical", 1) >>,
      \* a contrast violation whose impact is null
      << Violation("image-alt", "critical", 1), Violation("color-contrast", "null", 2) >> }

\* Inputs of the direct calls of the pure functions.
ColorStrings ==
    { "", "rgba(0, 0, 0, 0)", "rgba(255, 255, 255, 0)", "rgba(0, 0, 0, 0.0)",
      "rgb(0, 0, 0)", "rgb(255, 255, 255)", "rgb(6, 37, 28)", "rgb(13,69,56)",
      "rgba(92, 163, 184, 0.1)", "rgba(13, 69, 56, 1)", "rgba(1, 2, 3)",
      "transparent", "#06251c", "rgb(1 2 3)", "rgb(6 37 28 / 0.5)", "rgba(1, 2)",
      "rgb(1.5, 2, 3)", "rgb(a, b, c)", "rgba(1, 2, 3, x)", "rgb()", "rgb(5)",
      "color(srgb 1 0 0)" }

Palette ==
    { <<0, 0, 0>>, <<255, 255, 255>>, <<6, 37, 28>>, <<13, 69, 56>>, <<92, 163, 184>>,
      <<89, 89, 89>>, <<119, 119, 119>>, <<7, 7, 7>>, <<10, 10, 10>>, <<11, 11, 11>>,
      <<255, 0, 0>>, <<0, 255, 0>>, <<0, 0, 255>> }

\* str(n) for a natural number
RECURSIVE str_nat(_)
str_nat(n) ==
    IF n < 10 THEN DigitChars[n + 1]
    ELSE str_nat(n \div 10) \o DigitChars[(n % 10) + 1]

\* The alpha values a computed colour is written with; "" is the rgb(...) form.
Alphas == {"", "0", "0.0", "0.1", "0.5", "1"}

\* A computed colour as the browser serialises it.
css_color(c, a) ==
    IF a = ""
    THEN "rgb(" \o str_nat(c[1]) \o ", " \o str_nat(c[2]) \o ", " \o str_nat(c[3]) \o ")"
    ELSE "rgba(" \o str_nat(c[1]) \o ", " \o str_nat(c[2]) \o ", " \o str_nat(c[3])
                 \o ", " \o a \o ")"

CssColors == {css_color(c, a) : c \in Palette, a \in Alphas}

(***************************************************************************)
(* The two scripts' configuration.                                         *)
(***************************************************************************)
Sel(selector, description) == [selector |-> selector, description |-> description]

checks ==
    << [url |-> "http://localhost:3000/admin/login", name |-> "Admin Login",
        selectors |-> << Sel("h1, h2, h3", "Login page header"),
                         Sel("label", "Form labels (Email/Password)"),
                         Sel("input::placeholder", "Input placeholders"),
                         Sel("button", "Sign In button text") >>],
       [url |-> "http://localhost:3000/amenities", name |-> "Amenities Page",
        selectors |-> << Sel("h1", "Page title"),
                         Sel("h2", "Section headings"),
                         Sel("p", "Body text"),
                         Sel("label", "Form labels") >>],
       [url |-> "http://localhost:3000", name |-> "Home Page",
        selectors |-> << Sel("h1", "Main heading"),
                         Sel("h2", "Section headings"),
                         Sel("p", "Body text"),
                         Sel("nav a", "Navigation links") >>] >>

pages_to_audit ==
    << [url |-> "http://localhost:3000", name |-> "home"],
       [url |-> "http://localhost:3000/admin/login", name |-> "admin-login"],
       [url |-> "http://localhost:3000/admin", name |-> "admin-dashboard"],
       [url |-> "http://localhost:3000/amenities", name |-> "amenities"] >>

\* The number of configured jobs a run of the model goes through (a prefix of the
\* configured list).
NumJobs == 3

(***************************************************************************)
(* State                                                                   *)
(***************************************************************************)
VARIABLES
    prog,           \* which script runs: "cc", "aa", or "unit" (direct calls)
    pc,             \* the statement the script is at
    job,            \* index of the current entry of checks / pages_to_audit
    nav_log,        \* the page.goto calls made so far, with their outcome
    log,            \* the error lines printed so far
    exit_status,    \* "running", "success" (exit 0) or "failure" (traceback)
    dom,            \* contrast-checker: what the loaded page shows
    sel,            \* contrast-checker: index of the current selector
    results,        \* contrast-checker: audit_page_contrast's results
    all_results,    \* contrast-checker: main's all_results
    returned,       \* contrast-checker: what audit_page_contrast returned, job by job
    summary,        \* the totals printed by the summary
    report,         \* contrast-checker: contents of contrast-report.json
    axe_results,    \* accessibility-audit: what run_axe_audit returned
    files,          \* accessibility-audit: files written to accessibility-reports
    audit_results,  \* accessibility-audit: main's results
    call            \* a direct call of a pure function: name, arguments, outcome

vars == <<prog, pc, job, nav_log, log, exit_status, dom, sel, results, all_results,
          returned, summary, report, axe_results, files, audit_results, call>>

cc_vars == <<dom, sel, results, all_results, returned, report>>

aa_vars == <<axe_results, files, audit_results>>

NoDom == [i \in 1..4 |-> << >>]

NoSummary == [kind |-> "none"]

NoReport == [written |-> FALSE, data |-> << >>]

NoAxe == [error |-> "", violations |-> << >>]

NoCall == [fn |-> "", args |-> << >>, ret |-> None]

Init ==
    /\ prog \in {"cc", "aa", "unit"}
    /\ pc = IF prog = "unit" THEN "unit" ELSE "goto"
    /\ job = 1
    /\ nav_log = << >>
    /\ log = << >>
    /\ exit_status = "running"
    /\ dom = NoDom
    /\ sel = 1
    /\ results = << >>
    /\ all_results = << >>
    /\ returned = << >>
    /\ summary = NoSummary
    /\ report = NoReport
    /\ axe_results = NoAxe
    /\ files = {}
    /\ audit_results = << >>
    /\ call = NoCall

\* The jobs of the running script.
Jobs == IF prog = "cc" THEN Prefix(checks, NumJobs) ELSE Prefix(pages_to_audit, NumJobs)

\* `for ... in <jobs>`: after job j comes job j + 1, after the last one the summary.
next_job(j) ==
    IF j < Len(Jobs) THEN [pc |-> "goto", job |-> j + 1] ELSE [pc |-> "summary", job |-> j]

Navigated(ok) == [job |-> job, url |-> Jobs[job].url, ok |-> ok]

Printed(msg, exc) == [job |-> job, msg |-> msg, exc |-> exc]

\* `results = audit_page_contrast(...)` in main: the list returned for the job.
Returned(res) == [job |-> job, results |-> res]

(***************************************************************************)
(* contrast-checker.py: audit_page_contrast and main                       *)
(***************************************************************************)
\* (mutant) `if result`: error dictionaries are let through
is_recorded_any(result) == result.kind # "none"

\* `if result and 'error' not in result`
is_recorded(result) == result.kind = "check"

\* (mutant) the result put at the front of the list
appended_front(res, result) == IF is_recorded(result) THEN <<result>> \o res ELSE res

\* results.append(result) under that condition
appended(res, result) == IF is_recorded(result) THEN Append(res, result) ELSE res

\* page.goto and the wait succeed; the loop over the selectors starts.
CC_Goto ==
    /\ prog = "cc" /\ pc = "goto"
    /\ \E d \in Doms : dom' = d
    /\ nav_log' = Append(nav_log, Navigated(TRUE))
    /\ results' = << >>
    /\ sel' = 1
    /\ pc' = "check"
    /\ UNCHANGED <<prog, returned, job, log, exit_status, all_results, summary, report,
                   aa_vars, call>>

\* (mutant) a failed navigation leaves a marker entry in all_results
CC_GotoFails_marked ==
    /\ prog = "cc" /\ pc = "goto"
    /\ nav_log' = Append(nav_log, Navigated(FALSE))
    /\ log' = Append(log, Printed("Error", "NavigationError"))
    /\ all_results' = Append(all_results, [kind |-> "error", selector |-> "",
                                           error |-> "NavigationFailed"])
    /\ returned' = Append(returned, Returned(<< >>))
    /\ pc' = next_job(job).pc
    /\ job' = next_job(job).job
    /\ UNCHANGED <<prog, exit_status, dom, sel, results, summary, report, aa_vars, call>>

\* (mutant) a failed navigation is tried again
CC_GotoFails_retry ==
    /\ prog = "cc" /\ pc = "goto"
    /\ nav_log' = Append(nav_log, Navigated(FALSE))
    /\ log' = Append(log, Printed("Error", "NavigationError"))
    /\ UNCHANGED <<prog, pc, job, exit_status, dom, sel, results, all_results, returned,
                   summary, report, aa_vars, call>>

\* page.goto or the wait raises: the handler prints and returns [], which main
\* extends all_results with.
CC_GotoFails ==
    /\ prog = "cc" /\ pc = "goto"
    /\ nav_log' = Append(nav_log, Navigated(FALSE))
    /\ log' = Append(log, Printed("Error", "NavigationError"))
    /\ all_results' = all_results \o << >>
    /\ returned' = Append(returned, Returned(<< >>))
    /\ pc' = next_job(job).pc
    /\ job' = next_job(job).job
    /\ UNCHANGED <<prog, exit_status, dom, sel, results, summary, report, aa_vars, call>>

\* (mutant) no handler in check_element_contrast: the exception reaches the
\* handler of audit_page_contrast, which gives up the page and returns []
CC_Check_uncaught ==
    /\ prog = "cc" /\ pc = "check"
    /\ sel <= Len(Jobs[job].selectors)
    /\ IF check_element_contrast(dom[sel], Jobs[job].selectors[sel].selector,
                                 Jobs[job].selectors[sel].description).kind = "error"
       THEN /\ log' = Append(log, Printed("Error", "Error"))
            /\ returned' = Append(returned, Returned(<< >>))
            /\ pc' = next_job(job).pc
            /\ job' = next_job(job).job
            /\ UNCHANGED <<results, sel>>
       ELSE /\ results' = appended(results,
                                   check_element_contrast(dom[sel],
                                       Jobs[job].selectors[sel].selector,
                                       Jobs[job].selectors[sel].description))
            /\ sel' = sel + 1
            /\ UNCHANGED <<log, returned, pc, job>>
    /\ UNCHANGED <<prog, nav_log, exit_status, dom, all_results, summary,
                   report, aa_vars, call>>

\* One turn of the loop over the selectors.
CC_Check ==
    /\ prog = "cc" /\ pc = "check"
    /\ sel <= Len(Jobs[job].selectors)
    /\ results' = appended(results,
                           check_element_contrast(dom[sel],
                                                  Jobs[job].selectors[sel].selector,
                                                  Jobs[job].selectors[sel].description))
    /\ sel' = sel + 1
    /\ UNCHANGED <<prog, returned, pc, job, nav_log, log, exit_status, dom, all_results, summary,
                   report, aa_vars, call>>

\* (mutant) all_results assigned the page's list instead of extended with it
CC_Return_assigned ==
    /\ prog = "cc" /\ pc = "check"
    /\ sel > Len(Jobs[job].selectors)
    /\ all_results' = results
    /\ returned' = Append(returned, Returned(results))
    /\ pc' = next_job(job).pc
    /\ job' = next_job(job).job
    /\ UNCHANGED <<prog, nav_log, log, exit_status, dom, sel, results, summary, report,
                   aa_vars, call>>

\* The loop is over: audit_page_contrast returns results and main extends
\* all_results with it.
CC_Return ==
    /\ prog = "cc" /\ pc = "check"
    /\ sel > Len(Jobs[job].selectors)
    /\ all_results' = all_results \o results
    /\ returned' = Append(returned, Returned(results))
    /\ pc' = next_job(job).pc
    /\ job' = next_job(job).job
    /\ UNCHANGED <<prog, nav_log, log, exit_status, dom, sel, results, summary, report,
                   aa_vars, call>>

\* len([r for r in sq if P(r)]), given the list of P(r)
CountTrue(flags) == Cardinality({i \in DOMAIN flags : flags[i]})

\* r.get('passes', default)
get_passes(r, default) == IF "passes" \in DOMAIN r THEN r.passes ELSE default

\* not r.get('passes', True)
IsFailure(r) == ~get_passes(r, TRUE)

\* r.get('passes', False)
IsPass(r) == get_passes(r, FALSE)

\* The summary of main: failures, passes and the total.
CC_Summary ==
    /\ prog = "cc" /\ pc = "summary"
    /\ summary' = [kind |-> "contrast",
                   total |-> Len(all_results),
                   passes |-> CountTrue([i \in DOMAIN all_results |-> IsPass(all_results[i])]),
                   failures |-> CountTrue([i \in DOMAIN all_results |-> IsFailure(all_results[i])])]
    /\ pc' = "save"
    /\ UNCHANGED <<prog, returned, job, nav_log, log, exit_status, dom, sel, results, all_results,
                   report, aa_vars, call>>

\* json.dump(all_results) into contrast-report.json; the script ends.
CC_Save ==
    /\ prog = "cc" /\ pc = "save"
    /\ report' = [written |-> TRUE, data |-> all_results]
    /\ pc' = "done"
    /\ exit_status' = "success"
    /\ UNCHANGED <<prog, returned, job, nav_log, log, dom, sel, results, all_results, summary,
                   aa_vars, call>>

\* open() or json.dump raises: nothing catches it, the script ends with a traceback.
CC_SaveFails ==
    /\ prog = "cc" /\ pc = "save"
    /\ pc' = "done"
    /\ exit_status' = "failure"
    /\ UNCHANGED <<prog, returned, job, nav_log, log, dom, sel, results, all_results, summary,
                   report, aa_vars, call>>

(***************************************************************************)
(* accessibility-audit.py: audit_page and main                             *)
(***************************************************************************)
AA_Goto ==
    /\ prog = "aa" /\ pc = "goto"
    /\ nav_log' = Append(nav_log, Navigated(TRUE))
    /\ pc' = "screenshot"
    /\ UNCHANGED <<prog, job, log, exit_status, summary, cc_vars, aa_vars, call>>

AA_Screenshot ==
    /\ prog = "aa" /\ pc = "screenshot"
    /\ files' = files \cup {Jobs[job].name \o ".png"}
    /\ pc' = "scan"
    /\ UNCHANGED <<prog, job, nav_log, log, exit_status, summary, cc_vars,
                   axe_results, audit_results, call>>

\* inject_axe, then run_axe_audit returns axe's results.
AA_Scan ==
    /\ prog = "aa" /\ pc = "scan"
    /\ \E v \in ScanOutputs : axe_results' = [error |-> "", violations |-> v]
    /\ pc' = "write_json"
    /\ UNCHANGED <<prog, job, nav_log, log, exit_status, summary, cc_vars,
                   files, audit_results, call>>

\* (mutant) after a scanner error the audit of the page goes on with no violations
AA_ScanError_proceeds ==
    /\ prog = "aa" /\ pc = "scan"
    /\ axe_results' = [error |-> "axe is not defined", violations |-> << >>]
    /\ log' = Append(log, Printed("axe-core error", "ScannerError"))
    /\ pc' = "write_json"
    /\ UNCHANGED <<prog, job, nav_log, exit_status, summary, cc_vars, files,
                   audit_results, call>>

\* run_axe_audit returns {error: ...}: audit_page prints it and returns None, and
\* main appends nothing.
AA_ScanError ==
    /\ prog = "aa" /\ pc = "scan"
    /\ axe_results' = [error |-> "axe is not defined", violations |-> << >>]
    /\ log' = Append(log, Printed("axe-core error", "ScannerError"))
    /\ pc' = next_job(job).pc
    /\ job' = next_job(job).job
    /\ UNCHANGED <<prog, nav_log, exit_status, summary, cc_vars, files, audit_results,
                   call>>

\* The full results are written to <name>.json.
AA_Save ==
    /\ prog = "aa" /\ pc = "write_json"
    /\ files' = files \cup {Jobs[job].name \o ".json"}
    /\ pc' = "report"
    /\ UNCHANGED <<prog, job, nav_log, log, exit_status, summary, cc_vars,
                   axe_results, audit_results, call>>

\* (mutant) the total overwritten by each page instead of added up
SumSeq_last(ns) == IF Len(ns) = 0 THEN 0 ELSE ns[Len(ns)]

\* sum(...) of a list of numbers
RECURSIVE SumSeq(_)
SumSeq(ns) == IF Len(ns) = 0 THEN 0 ELSE Head(ns) + SumSeq(Tail(ns))

IsContrast(v) == Contains(v.id, "color-contrast")

\* (mutant) only the contrast violations are kept in the result
page_result_filtered(name, url, violations) ==
    [name |-> name, url |-> url,
     total_violations |-> Len(violations),
     contrast_violations |-> CountTrue([i \in DOMAIN violations |-> IsContrast(violations[i])]),
     violations |-> SelectSeq(violations, IsContrast)]

\* (mutant) the contrast count is the number of affected elements
page_result_nodes(name, url, violations) ==
    [name |-> name, url |-> url,
     total_violations |-> Len(violations),
     contrast_violations |->
         SumSeq([i \in DOMAIN violations |->
                    IF IsContrast(violations[i]) THEN violations[i].nodes ELSE 0]),
     violations |-> violations]

\* The dictionary audit_page returns.
page_result(name, url, violations) ==
    [name |-> name, url |-> url,
     total_violations |-> Len(violations),
     contrast_violations |-> CountTrue([i \in DOMAIN violations |-> IsContrast(violations[i])]),
     violations |-> violations]

\* violation.get('impact', 'unknown').upper() in the display of the contrast
\* violations: an impact that is there and null has no upper().
display_raises(violations) ==
    \E i \in DOMAIN violations : IsContrast(violations[i]) /\ violations[i].impact = "null"

\* The violations are extracted and displayed and the result is returned; main
\* appends it.
AA_Report ==
    /\ prog = "aa" /\ pc = "report"
    /\ ~display_raises(axe_results.violations)
    /\ audit_results' = Append(audit_results,
                               page_result(Jobs[job].name, Jobs[job].url,
                                           axe_results.violations))
    /\ pc' = next_job(job).pc
    /\ job' = next_job(job).job
    /\ UNCHANGED <<prog, nav_log, log, exit_status, summary, cc_vars, axe_results,
                   files, call>>

\* The exception a statement of the try block raises.
ExcAt(at) ==
    CASE at = "goto" -> "NavigationError"
      [] at = "screenshot" -> "ScreenshotError"
      [] at = "scan" -> "ScannerError"
      [] at = "write_json" -> "OSError"
      [] at = "report" -> "AttributeError"

\* The statements of the try block that can raise: the driver's and the file
\* system's at any time, the display when a contrast violation has no impact.
can_raise ==
    \/ pc \in {"goto", "screenshot", "scan", "write_json"}
    \/ pc = "report" /\ display_raises(axe_results.violations)

\* (mutant) no handler: the exception ends the script
AA_Raise_uncaught ==
    /\ prog = "aa" /\ can_raise
    /\ nav_log' = IF pc = "goto" THEN Append(nav_log, Navigated(FALSE)) ELSE nav_log
    /\ pc' = "done"
    /\ exit_status' = "failure"
    /\ UNCHANGED <<prog, job, log, summary, cc_vars, aa_vars, call>>

\* `except Exception`: whatever statement of the try block raised, audit_page
\* prints the error and returns None, and main appends nothing.
AA_Raise ==
    /\ prog = "aa" /\ can_raise
    /\ nav_log' = IF pc = "goto" THEN Append(nav_log, Navigated(FALSE)) ELSE nav_log
    /\ log' = Append(log, Printed("Error", ExcAt(pc)))
    /\ pc' = next_job(job).pc
    /\ job' = next_job(job).job
    /\ UNCHANGED <<prog, exit_status, summary, cc_vars, aa_vars, call>>

TotalOf(r) == r.total_violations

ContrastOf(r) == r.contrast_violations

\* The summary of main; the script ends.
AA_Summary ==
    /\ prog = "aa" /\ pc = "summary"
    /\ summary' = [kind |-> "audit",
                   total_violations |-> SumSeq([i \in DOMAIN audit_results |-> TotalOf(audit_results[i])]),
                   total_contrast |-> SumSeq([i \in DOMAIN audit_results |-> ContrastOf(audit_results[i])])]
    /\ pc' = "done"
    /\ exit_status' = "success"
    /\ UNCHANGED <<prog, job, nav_log, log, cc_vars, aa_vars, call>>

(***************************************************************************)
(* Direct calls of the pure functions                                      *)
(***************************************************************************)
Call_parse_rgb ==
    /\ prog = "unit"
    /\ \E s \in ColorStrings \cup CssColors :
         call' = [fn |-> "parse_rgb", args |-> <<s>>, ret |-> parse_rgb(s)]
    /\ UNCHANGED <<prog, pc, job, nav_log, log, exit_status, summary, cc_vars, aa_vars>>

Call_get_contrast_ratio ==
    /\ prog = "unit"
    /\ \E a \in Palette, b \in Palette :
         call' = [fn |-> "get_contrast_ratio", args |-> <<a, b>>,
                  ret |-> get_contrast_ratio(a[1], a[2], a[3], b[1], b[2], b[3])]
    /\ UNCHANGED <<prog, pc, job, nav_log, log, exit_status, summary, cc_vars, aa_vars>>

\* The greys, which take every channel value.
Greys == {<<c, c, c>> : c \in 0..255}

\* get_luminance as get_contrast_ratio calls it for one colour; the value is in
\* units of 1e-6.
Call_get_luminance ==
    /\ prog = "unit"
    /\ \E c \in Palette \cup Greys :
         call' = [fn |-> "get_luminance", args |-> <<c>>,
                  ret |-> [kind |-> "luminance", v |-> get_luminance(c[1], c[2], c[3])]]
    /\ UNCHANGED <<prog, pc, job, nav_log, log, exit_status, summary, cc_vars, aa_vars>>

\* check-dialog-contrast.py: the dialog's text colour and surface colour, and the
\* ratio the script prints for them.
text_inverse == <<6, 37, 28>>

surface_elevated == <<13, 69, 56>>

Dialog_check ==
    /\ prog = "unit"
    /\ call' = [fn |-> "check-dialog-contrast", args |-> <<text_inverse, surface_elevated>>,
                ret |-> get_contrast_ratio(text_inverse[1], text_inverse[2], text_inverse[3],
                                           surface_elevated[1], surface_elevated[2],
                                           surface_elevated[3])]
    /\ UNCHANGED <<prog, pc, job, nav_log, log, exit_status, summary, cc_vars, aa_vars>>

Next ==
    \/ CC_Goto
    \/ CC_GotoFails
    \/ CC_Check
    \/ CC_Return
    \/ CC_Summary
    \/ CC_Save
    \/ CC_SaveFails
    \/ AA_Goto
    \/ AA_Screenshot
    \/ AA_Scan
    \/ AA_ScanError
    \/ AA_Save
    \/ AA_Report
    \/ AA_Raise
    \/ AA_Summary
    \/ Call_parse_rgb
    \/ Call_get_contrast_ratio
    \/ Dialog_check
    \/ Call_get_luminance

Spec == Init /\ [][Next]_vars

(***************************************************************************)
(* Vocabulary of the properties                                            *)
(***************************************************************************)
\* The contrast checker is inside the selector loop of the page of `job`; the
\* selectors before `sel` have been checked against `dom`.
InPage == prog = "cc" /\ pc = "check"

Checked == IF InPage THEN 1..(sel - 1) ELSE {}

\* The element the check of selector i works on, when there is one to read.
HasElement(i) == Len(dom[i]) > 0 /\ dom[i][1].visible /\ ~dom[i][1].fault

Element(i) == dom[i][1]

\* The dictionaries recorded for selector i of the current page (selectors are
\* distinct within a page).
RecordsOf(i) ==
    {k \in DOMAIN results : results[k].selector = Jobs[job].selectors[i].selector}

\* Every dictionary the run holds.
AllRecords ==
    {results[k] : k \in DOMAIN results} \cup {all_results[k] : k \in DOMAIN all_results}

\* The unrounded ratio the check of an element computes.
ElementRatio(e) == ratio_of(parse_rgb(e.color).v, resolve_background(e).v)

Measurable(e) ==
    /\ parse_rgb(e.color).kind = "tuple"
    /\ resolve_background(e).kind = "tuple"
    /\ ElementRatio(e).kind = "ratio"
    /\ py_float(Replace(e.fontSize, "px", "")).kind = "float"

(***************************************************************************)
(* C1                                                                      *)
(***************************************************************************)
\* C1 as stated: in every recorded dictionary, passes equals
\* (contrastRatio >= required), so a dictionary whose contrastRatio equals
\* required has passes = true.
C1_PassIffStoredRatio ==
    \A r \in AllRecords : r.passes <=> (r.contrastRatio >= r.required)

\* C1 amended: passes equals (the unrounded ratio >= required).  The dictionary
\* stores the ratio rounded to two decimals, so passes implies
\* contrastRatio >= required and a failing dictionary has
\* contrastRatio <= required, with equality possible on both sides.
C1_PassIffComputedRatio ==
    /\ \A i \in Checked : \A k \in RecordsOf(i) :
          /\ HasElement(i)
          /\ results[k].passes <=> RatioGE(ElementRatio(Element(i)), results[k].required)
          /\ results[k].contrastRatio = Round2(ElementRatio(Element(i)))
    /\ \A r \in AllRecords :
          /\ r.passes => r.contrastRatio >= r.required
          /\ ~r.passes => r.contrastRatio <= r.required

\* A recorded dictionary shows a ratio equal to its requirement and fails, next
\* to one that passes.
C1_Witness ==
    /\ \E r \in AllRecords : r.contrastRatio = r.required /\ ~r.passes
    /\ \E r \in AllRecords : r.passes

(***************************************************************************)
(* C2                                                                      *)
(***************************************************************************)
\* The classification the claim states, read off a dictionary's own fontSize and
\* fontWeight strings.
StatedLarge(fontSize, fontWeight) ==
    \/ FloatGE(py_float(Replace(fontSize, "px", "")), 2400)
    \/ /\ FloatGE(py_float(Replace(fontSize, "px", "")), 1866)
       /\ DigitsVal(fontWeight) >= 700

\* C2: with an integer font weight, isLargeText is exactly
\* fontSize >= 24 or (fontSize >= 18.66 and fontWeight >= 700); required is 3.0
\* when large and 4.5 otherwise, hence always one of the two; 24px/400 is large
\* with 3.0 and 16px/700 is not large with 4.5.
C2_LargeTextThreshold ==
    \A r \in AllRecords :
        /\ IsDigitStr(r.fontWeight) =>
              (r.isLargeText <=> StatedLarge(r.fontSize, r.fontWeight))
        /\ r.required = (IF r.isLargeText THEN 300 ELSE 450)
        /\ r.required \in {300, 450}
        /\ (r.fontSize = "24px" /\ r.fontWeight = "400") =>
              (r.isLargeText /\ r.required = 300)
        /\ (r.fontSize = "16px" /\ r.fontWeight = "700") =>
              (~r.isLargeText /\ r.required = 450)

\* Both examples of the claim and a bold 18.66px text have been recorded.
C2_Witness ==
    /\ \E r \in AllRecords : r.fontSize = "24px" /\ r.fontWeight = "400"
    /\ \E r \in AllRecords : r.fontSize = "16px" /\ r.fontWeight = "700"
    /\ \E r \in AllRecords : r.fontSize = "18.66px" /\ r.fontWeight = "700"

(***************************************************************************)
(* C3                                                                      *)
(***************************************************************************)
IsPrefix(a, b) == Len(a) <= Len(b) /\ SubSeq(b, 1, Len(a)) = a

Finishing == pc \in {"summary", "save", "done"}

PcRank ==
    CASE pc = "goto" -> 0
      [] pc \in {"screenshot", "check"} -> 1
      [] pc = "scan" -> 2
      [] pc = "write_json" -> 3
      [] pc = "report" -> 4
      [] pc = "summary" -> 5
      [] pc = "save" -> 6
      [] pc = "done" -> 7
      [] OTHER -> 0

\* How far a run has come: job, then statement, then selector.
Progress == 1000 * job + 10 * PcRank + sel

\* C3: a step on which a page's audit fails (it prints an error line) changes no
\* collected result, keeps the run going and hands over to the next job, or to the
\* summary after the last one; results once collected stay where they are; when
\* the loop is over every configured job has been navigated to once, in order; the
\* run ends with success unless the contrast report could not be written; and
\* every step of a script takes the run further towards its end.
C3_PageFailureDoesNotAbort ==
    /\ [][ /\ (log' # log) =>
                /\ all_results' = all_results
                /\ audit_results' = audit_results
                /\ exit_status' = "running"
                /\ pc' = next_job(job).pc
                /\ job' = next_job(job).job
           /\ IsPrefix(all_results, all_results')
           /\ IsPrefix(audit_results, audit_results')
           /\ prog # "unit" => Progress' > Progress ]_vars
    /\ [](Finishing =>
            /\ Len(nav_log) = Len(Jobs)
            /\ \A i \in DOMAIN nav_log : nav_log[i].job = i)
    /\ [](pc = "done" =>
            exit_status = (IF prog = "cc" /\ ~report.written THEN "failure" ELSE "success"))

\* A run is over with success although the audit of its first page failed; the
\* page after it was loaded and the results collected after it are there.
C3_Witness ==
    /\ pc = "done" /\ exit_status = "success"
    /\ \E k \in DOMAIN log : log[k].job = 1
    /\ nav_log[2].ok
    /\ Len(all_results) + Len(audit_results) > 0

(***************************************************************************)
(* C4                                                                      *)
(***************************************************************************)
\* The results hold an entry for job j: for the audit a dictionary with the
\* page's name, for the contrast checker a dictionary of one of its selectors.
PageInResults(j) ==
    IF prog = "aa"
    THEN \E k \in DOMAIN audit_results : audit_results[k].name = Jobs[j].name
    ELSE \E k \in DOMAIN all_results : \E i \in DOMAIN Jobs[j].selectors :
            /\ all_results[k].selector = Jobs[j].selectors[i].selector
            /\ all_results[k].description = Jobs[j].selectors[i].description

NavigationFails == Len(nav_log') = Len(nav_log) + 1 /\ ~nav_log'[Len(nav_log')].ok

ScannerFailures == {k \in DOMAIN log : log[k].exc = "ScannerError"}

C6_PersistenceFailureFatal ==
    /\ \A k \in DOMAIN log :
          log[k].exc = "OSError" => (pc = "done" /\ exit_status = "failure")
    /\ (prog = "cc" /\ pc = "done" /\ ~report.written) => exit_status = "failure"

(***************************************************************************)
(* C7                                                                      *)
(***************************************************************************)
\* The element's text colour parses to None.
TransparentForeground(e) == IsNone(parse_rgb(e.color))

\* The element's background is still None after the ancestors were consulted.
UnresolvedBackground(e) == IsNone(resolve_background(e))

\* C7: a selector whose element has a text colour that parses to None, or a
\* background that is still None after the ancestor walk, has no dictionary in the
\* page's results (so none with passes = false either); every dictionary there
\* belongs to an element whose text colour and background are both colours.
C7_UnresolvedNeverRecorded ==
    /\ \A i \in Checked :
          (HasElement(i) /\ (TransparentForeground(Element(i))
                             \/ UnresolvedBackground(Element(i))))
              => RecordsOf(i) = {}
    /\ \A i \in Checked : RecordsOf(i) # {} =>
          /\ HasElement(i)
          /\ parse_rgb(Element(i).color).kind = "tuple"
          /\ resolve_background(Element(i)).kind = "tuple"

\* On one page an element with a transparent text colour and an element whose
\* background stayed unresolved have been checked and left no dictionary, and
\* another element of the page was recorded.
C7_Witness ==
    /\ \E i \in Checked :
          HasElement(i) /\ TransparentForeground(Element(i)) /\ RecordsOf(i) = {}
    /\ \E i \in Checked :
          /\ HasElement(i) /\ ~TransparentForeground(Element(i))
          /\ UnresolvedBackground(Element(i)) /\ RecordsOf(i) = {}
    /\ \E i \in Checked : RecordsOf(i) # {}

(***************************************************************************)
(* C8                                                                      *)
(***************************************************************************)
White == [kind |-> "tuple", v |-> <<255, 255, 255>>]

\* Two results of parse_rgb are the same value.
SameColour(a, b) == a.kind = b.kind /\ (a.kind = "tuple" => a.v = b.v)

\* The element's own background and that of every ancestor up to the root are
\* transparent: parse_rgb gives None for each of them.
AllTransparent(e) ==
    /\ IsNone(parse_rgb(e.backgroundColor))
    /\ \A a \in DOMAIN e.ancestors : IsNone(parse_rgb(e.ancestors[a]))

\* C8: for an element whose own background and all ancestors' backgrounds are
\* transparent, the resolved background is (255, 255, 255), and when its text
\* colour and font size are readable the check is made against white and
\* recorded, not skipped.
C8_AllTransparentResolvesToWhite ==
    \A i \in Checked :
        (HasElement(i) /\ AllTransparent(Element(i))) =>
            /\ SameColour(resolve_background(Element(i)), White)
            /\ (/\ parse_rgb(Element(i).color).kind = "tuple"
                /\ py_float(Replace(Element(i).fontSize, "px", "")).kind = "float")
                => \E k \in RecordsOf(i) :
                      results[k].contrastRatio =
                          Round2(ratio_of(parse_rgb(Element(i).color).v, White.v))

(***************************************************************************)
(* C9                                                                      *)
(***************************************************************************)
\* The background of the nearest ancestor that is not transparent, white when
\* there is none.
RECURSIVE NearestOpaque(_)
NearestOpaque(ancestors) ==
    IF Len(ancestors) = 0 THEN White
    ELSE IF ~IsNone(parse_rgb(Head(ancestors))) THEN parse_rgb(Head(ancestors))
    ELSE NearestOpaque(Tail(ancestors))

\* The background the claim states for an element.
StatedBackground(e) ==
    IF ~IsNone(parse_rgb(e.backgroundColor)) THEN parse_rgb(e.backgroundColor)
    ELSE NearestOpaque(e.ancestors)

\* C9: the background resolved for an element is its own when that is not
\* transparent, and otherwise that of the nearest ancestor whose background is
\* not transparent, every transparent ancestor in between passed over, however
\* its transparent value is written.
C9_NearestOpaqueAncestor ==
    \A i \in Checked :
        HasElement(i) =>
            SameColour(resolve_background(Element(i)), StatedBackground(Element(i)))

(***************************************************************************)
(* C10                                                                     *)
(***************************************************************************)
\* C10: a call of parse_rgb never raises: it returns a tuple of channels or None.
C10_ParseRgbNeverRaises ==
    call.fn = "parse_rgb" => (~IsRaise(call.ret) /\ call.ret.kind \in {"tuple", "none"})

(***************************************************************************)
(* C11                                                                     *)
(***************************************************************************)
\* The alpha values that are exactly 0.
ZeroAlphas == {"0", "0.0"}

\* C11: for a well-formed colour rgb(r, g, b) or rgba(r, g, b, a), parse_rgb
\* returns None exactly when the alpha is 0 and otherwise the triple (r, g, b) of
\* its first three components: a colour with alpha 0.1 gives its triple, and
\* rgb(0, 0, 0) gives (0, 0, 0), not None.
C11_TransparentIffAlphaZero ==
    call.fn = "parse_rgb" =>
        \A c \in Palette : \A a \in Alphas :
            call.args = <<css_color(c, a)>> =>
                IF a \in ZeroAlphas THEN IsNone(call.ret)
                ELSE call.ret.kind = "tuple" /\ call.ret.v = c

\* parse_rgb was called with a colour of alpha 0.1 and returned its triple.
C11_Witness ==
    /\ call.fn = "parse_rgb"
    /\ call.args = <<"rgba(92, 163, 184, 0.1)">>
    /\ call.ret.kind = "tuple" /\ call.ret.v = <<92, 163, 184>>

(***************************************************************************)
(* C12                                                                     *)
(***************************************************************************)
SomeVisible(matches) == \E k \in DOMAIN matches : matches[k].visible

\* The first of the matching elements that is visible.
FirstVisibleOf(matches) ==
    matches[CHOOSE k \in DOMAIN matches :
                matches[k].visible /\ \A j \in 1..(k - 1) : ~matches[j].visible]

\* C12: the check of a selector is made on the first matching element that is
\* visible: whenever some matching element is visible (also behind a hidden first
\* match) and its colours and font size can be measured, the selector has a
\* dictionary in the page's results.
C12_FirstVisibleMatchChecked ==
    \A i \in Checked :
        (/\ SomeVisible(dom[i])
         /\ ~FirstVisibleOf(dom[i]).fault
         /\ Measurable(FirstVisibleOf(dom[i])))
            => RecordsOf(i) # {}

(***************************************************************************)
(* C13                                                                     *)
(***************************************************************************)
\* The selector's element is not found or not visible.
ElementUnresolved(i) == Len(dom[i]) = 0 \/ ~dom[i][1].visible

PassingRecords == {k \in DOMAIN all_results : all_results[k].passes}

FailingRecords == {k \in DOMAIN all_results : ~all_results[k].passes}

\* C13: a selector whose element is not found or not visible has no dictionary in
\* the page's list; checking it changes neither the list nor anything printed and
\* the loop goes on with the next selector; the run's list grows only by a page's
\* whole list after the page's last selector; and the summary counts exactly the
\* dictionaries of the run's list, the passing among them as passing and the
\* failing as failing, so such a selector is in neither total.
C13_UnresolvedElementSkipped ==
    /\ [](\A i \in Checked : ElementUnresolved(i) => RecordsOf(i) = {})
    /\ [][ (InPage /\ sel <= Len(Jobs[job].selectors) /\ ElementUnresolved(sel)) =>
               /\ results' = results /\ all_results' = all_results
               /\ log' = log /\ exit_status' = exit_status
               /\ pc' = "check" /\ job' = job /\ sel' = sel + 1 ]_vars
    /\ [][ (prog = "cc" /\ all_results' # all_results) =>
               /\ InPage /\ sel = Len(Jobs[job].selectors) + 1
               /\ all_results' = all_results \o results ]_vars
    /\ []((prog = "cc" /\ summary # NoSummary) =>
               /\ summary.total = Len(all_results)
               /\ summary.passes = Cardinality(PassingRecords)
               /\ summary.failures = Cardinality(FailingRecords)
               /\ summary.passes + summary.failures = summary.total)

\* On one page a selector matched nothing, a later selector of the page was
\* recorded, and the page's four selectors have all been checked.
C13_Witness ==
    /\ InPage /\ sel = Len(Jobs[job].selectors) + 1
    /\ \E i \in Checked : \E j \in Checked :
          i < j /\ Len(dom[i]) = 0 /\ RecordsOf(j) # {}

(***************************************************************************)
(* C14                                                                     *)
(***************************************************************************)
\* The ids of the scanner's contrast rules.
ContrastRuleIds == {"color-contrast", "color-contrast-enhanced"}

ContrastEntries(violations) ==
    {k \in DOMAIN violations : violations[k].id \in ContrastRuleIds}

\* C14: the result appended for a page whose scan succeeded holds the scanner's
\* violation list as the scanner returned it; in every page result
\* total_violations is the length of that list and contrast_violations the number
\* of its entries with the id of a contrast rule; a list of 4 violations of which
\* exactly one has the id color-contrast gives 4 and 1.
C14_ViolationCounts ==
    /\ [][ (audit_results' # audit_results) =>
               /\ axe_results.error = ""
               /\ Len(audit_results') = Len(audit_results) + 1
               /\ audit_results'[Len(audit_results')].violations = axe_results.violations
               /\ audit_results'[Len(audit_results')].name = Jobs[job].name ]_vars
    /\ [](\A k \in DOMAIN audit_results :
               /\ audit_results[k].total_violations = Len(audit_results[k].violations)
               /\ audit_results[k].contrast_violations =
                      Cardinality(ContrastEntries(audit_results[k].violations))
               /\ (/\ Len(audit_results[k].violations) = 4
                   /\ Cardinality({i \in 1..4 :
                          audit_results[k].violations[i].id = "color-contrast"}) = 1
                   /\ Cardinality(ContrastEntries(audit_results[k].violations)) = 1)
                     => (/\ audit_results[k].total_violations = 4
                         /\ audit_results[k].contrast_violations = 1))

\* A page with 4 violations, one of them color-contrast, has been recorded with
\* the counts 4 and 1, next to a page with no violation at all.
C14_Witness ==
    /\ \E k \in DOMAIN audit_results :
          /\ Len(audit_results[k].violations) = 4
          /\ audit_results[k].total_violations = 4
          /\ audit_results[k].contrast_violations = 1
    /\ \E k \in DOMAIN audit_results : audit_results[k].violations = << >>

(***************************************************************************)
(* C15                                                                     *)
(***************************************************************************)
\* The sum of f over the index set S, taken in no particular order.
RECURSIVE SumOver(_, _)
SumOverPick(S, f, x) == f[x] + SumOver(S \ {x}, f)

SumOver(S, f) == IF S = {} THEN 0 ELSE SumOverPick(S, f, CHOOSE x \in S : TRUE)

PagePasses(res) == Cardinality({k \in DOMAIN res : res[k].passes})

PageFailures(res) == Cardinality({k \in DOMAIN res : ~res[k].passes})

\* The lists of a sequence of pages, one after the other.
RECURSIVE Flatten(_)
Flatten(pages) == IF Len(pages) = 0 THEN << >> ELSE Head(pages) \o Flatten(Tail(pages))

\* The pages' returned lists in the order p of the jobs.
Reordered(p) == Flatten([i \in DOMAIN returned |-> returned[p[i]].results])

\* The totals are the sums of the per-page counts.
TotalsAreSums ==
    /\ summary.kind = "audit" =>
          /\ summary.total_violations =
                SumOver(DOMAIN audit_results,
                        [k \in DOMAIN audit_results |-> audit_results[k].total_violations])
          /\ summary.total_contrast =
                SumOver(DOMAIN audit_results,
                        [k \in DOMAIN audit_results |-> audit_results[k].contrast_violations])
    /\ summary.kind = "contrast" =>
          /\ summary.passes =
                SumOver(DOMAIN returned,
                        [k \in DOMAIN returned |-> PagePasses(returned[k].results)])
          /\ summary.failures =
                SumOver(DOMAIN returned,
                        [k \in DOMAIN returned |-> PageFailures(returned[k].results)])

\* The summary made from the same per-page results in another job order gives
\* the same totals.
TotalsIgnoreOrder ==
    /\ summary.kind = "audit" =>
          \A p \in Permutations(DOMAIN audit_results) :
              /\ summary.total_violations =
                    SumSeq([i \in DOMAIN audit_results |-> TotalOf(audit_results[p[i]])])
              /\ summary.total_contrast =
                    SumSeq([i \in DOMAIN audit_results |-> ContrastOf(audit_results[p[i]])])
    /\ summary.kind = "contrast" =>
          \A p \in Permutations(DOMAIN returned) :
              /\ summary.passes =
                    CountTrue([i \in DOMAIN Reordered(p) |-> IsPass(Reordered(p)[i])])
              /\ summary.failures =
                    CountTrue([i \in DOMAIN Reordered(p) |-> IsFailure(Reordered(p)[i])])

\* C15: the totals of the summary (total violations, total contrast violations,
\* checks passed, checks failed) are the sums of the per-page counts over the
\* run's results, and the summary of the same per-page results in any other job
\* order gives the same totals.
C15_TotalsAreOrderFreeSums == TotalsAreSums /\ TotalsIgnoreOrder

\* An audit has ended whose pages have different counts and whose totals are the
\* counts of more than one page.
C15_Witness ==
    /\ summary.kind = "audit"
    /\ Len(audit_results) >= 2
    /\ audit_results[1].total_violations = 4
    /\ audit_results[Len(audit_results)].total_violations = 1
    /\ summary.total_violations >= 5
    /\ summary.total_contrast >= 2

(***************************************************************************)
(* C16                                                                     *)
(***************************************************************************)
\* The position, among the selector descriptors of job j, of the one dictionary r
\* was recorded for.
SelectorIndex(j, r) ==
    CHOOSE i \in DOMAIN Jobs[j].selectors :
        /\ Jobs[j].selectors[i].selector = r.selector
        /\ Jobs[j].selectors[i].description = r.description

\* The dictionaries of list res follow the order of job j's selector descriptors.
InSelectorOrder(j, res) ==
    \A k \in DOMAIN res : \A l \in DOMAIN res :
        k < l => SelectorIndex(j, res[k]) < SelectorIndex(j, res[l])

\* The position of the page named name in the configured list.
JobIndex(name) == CHOOSE j \in DOMAIN Jobs : Jobs[j].name = name

\* C16: the dictionaries recorded for a page are in the order of the page's
\* selector descriptors; the run's list holds the pages in the configured order,
\* each at most once (all_results is the pages' lists one after the other, job by
\* job, and the audit's results are in strictly increasing job order); and a page
\* result holds the violations in the order the scanner returned them.
C16_OrderPreserved ==
    /\ [](prog = "cc" =>
            /\ InPage => InSelectorOrder(job, results)
            /\ \A k \in DOMAIN returned :
                  returned[k].job = k /\ InSelectorOrder(k, returned[k].results)
            /\ all_results = Flatten([k \in DOMAIN returned |-> returned[k].results]))
    /\ [](prog = "aa" =>
            \A k \in DOMAIN audit_results : \A l \in DOMAIN audit_results :
                k < l => JobIndex(audit_results[k].name) < JobIndex(audit_results[l].name))
    /\ [][ (audit_results' # audit_results) =>
               /\ audit_results' = Append(audit_results, audit_results'[Len(audit_results')])
               /\ Len(audit_results'[Len(audit_results')].violations)
                      = Len(axe_results.violations)
               /\ \A i \in DOMAIN axe_results.violations :
                      audit_results'[Len(audit_results')].violations[i]
                          = axe_results.violations[i] ]_vars

\* The run's list holds several dictionaries of one page and dictionaries of a
\* later page.
C16_Witness ==
    /\ prog = "cc" /\ pc = "done"
    /\ \E k \in DOMAIN returned : \E l \in DOMAIN returned :
          k < l /\ Len(returned[k].results) >= 3 /\ Len(returned[l].results) >= 2

(***************************************************************************)
(* C17                                                                     *)
(***************************************************************************)
\* Every entry of list a is still at its place in list b, with the same fields
\* and values.
EntriesKept(a, b) == \A k \in DOMAIN a : k \in DOMAIN b /\ b[k] = a[k]

\* C17: no step changes an entry that is in the run's results: after every step
\* each entry of all_results, of the audit's results and of the lists returned
\* for the pages is where it was, with the fields and values it had; and the
\* report written at the end holds exactly these entries.
C17_AppendedEntriesFrozen ==
    /\ [][ /\ EntriesKept(all_results, all_results')
           /\ EntriesKept(audit_results, audit_results')
           /\ EntriesKept(returned, returned') ]_vars
    /\ [](report.written => report.data = all_results)
    /\ []((prog = "cc" /\ pc = "done") =>
             all_results = Flatten([k \in DOMAIN returned |-> returned[k].results]))

\* An audit is over in which the first page was recorded and a later page failed;
\* the first page's entry is in the results.
C17_Witness ==
    /\ prog = "aa" /\ pc = "done"
    /\ Len(audit_results) >= 1
    /\ audit_results[1].name = Jobs[1].name
    /\ audit_results[1].total_violations > 0
    /\ \E k \in DOMAIN log : log[k].job > 1

(***************************************************************************)
(* C18                                                                     *)
(***************************************************************************)
\* The audit of job j is over: its list was returned (contrast checker), or its
\* page result was appended or its failure printed (audit).
JobFinished(j) ==
    IF prog = "cc" THEN \E k \in DOMAIN returned : returned[k].job = j
    ELSE PageInResults(j) \/ \E k \in DOMAIN log : log[k].job = j

\* C18: the i-th navigation of a run is the one to the i-th configured job's url,
\* so every url is navigated to at most once, in the configured order, and exactly
\* once when the loop is over; a navigation is made only when the audits of all
\* earlier jobs are over; and after a failed navigation the run moves on to the
\* next job (or to the summary), it does not navigate to the same url again.
C18_OneJobAtATimeInOrder ==
    /\ [](prog # "unit" =>
            /\ \A i \in DOMAIN nav_log :
                  nav_log[i].job = i /\ nav_log[i].url = Jobs[i].url
            /\ Len(nav_log) \in {job - 1, job}
            /\ \A j \in 1..(Len(nav_log) - 1) : JobFinished(j)
            /\ Finishing =>
                  (Len(nav_log) = Len(Jobs) /\ \A j \in DOMAIN Jobs : JobFinished(j)))
    /\ [][ (Len(nav_log') # Len(nav_log)) =>
               /\ pc = "goto"
               /\ nav_log' = Append(nav_log, nav_log'[Len(nav_log')])
               /\ nav_log'[Len(nav_log')].job = job
               /\ \A j \in 1..(job - 1) : JobFinished(j)
               /\ ~nav_log'[Len(nav_log')].ok =>
                     (IF job < Len(Jobs) THEN job' = job + 1 /\ pc' = "goto"
                      ELSE job' = job /\ pc' = "summary") ]_vars

\* A run of the contrast checker is over: the navigation to the second job failed,
\* the third job was navigated to after it, each job once.
C18_Witness ==
    /\ prog = "cc" /\ pc = "done"
    /\ Len(nav_log) = Len(Jobs)
    /\ nav_log[1].ok /\ ~nav_log[2].ok /\ nav_log[Len(nav_log)].ok

(***************************************************************************)
(* C19                                                                     *)
(***************************************************************************)
\* The call made was one of get_contrast_ratio, directly or by the dialog script.
RatioCalled == call.fn \in {"get_contrast_ratio", "check-dialog-contrast"}

\* C19: the ratio get_contrast_ratio returns is at least 1.0 whichever of the two
\* colours is given first, and every recorded dictionary carries a ratio of at
\* least 1.0 (100 hundredths).
C19_RatioAtLeastOne ==
    /\ RatioCalled => (call.ret.den > 0 /\ call.ret.num >= call.ret.den)
    /\ \A r \in AllRecords : r.contrastRatio >= 100
    /\ \A k \in DOMAIN report.data : report.data[k].contrastRatio >= 100

\* get_contrast_ratio was called with the darker colour first and returned a
\* ratio above 1.
C19_Witness ==
    /\ call.fn = "get_contrast_ratio"
    /\ call.args = << <<0, 0, 0>>, <<255, 255, 255>> >>
    /\ call.ret.num > call.ret.den

(***************************************************************************)
(* C20                                                                     *)
(***************************************************************************)
\* get_contrast_ratio of the two colours, second one first.
Swapped(a, b) == get_contrast_ratio(b[1], b[2], b[3], a[1], a[2], a[3])

\* C20: the ratio returned for colours a and b is the ratio of b and a, and so is
\* the verdict against either threshold; for a recorded element the ratio and the
\* verdict are those of its background colour on its text colour.
C20_RatioSymmetric ==
    /\ RatioCalled =>
          /\ call.ret = Swapped(call.args[1], call.args[2])
          /\ \A h \in {300, 450} :
                passes_check(call.ret, h)
                    <=> passes_check(Swapped(call.args[1], call.args[2]), h)
    /\ \A i \in Checked : \A k \in RecordsOf(i) :
          /\ results[k].contrastRatio =
                Round2(Swapped(parse_rgb(Element(i).color).v,
                               resolve_background(Element(i)).v))
          /\ results[k].passes <=>
                passes_check(Swapped(parse_rgb(Element(i).color).v,
                                     resolve_background(Element(i)).v),
                             results[k].required)

\* get_contrast_ratio was called with the lighter colour first, for two colours
\* of different luminance.
C20_Witness ==
    /\ call.fn = "get_contrast_ratio"
    /\ call.args = << <<13, 69, 56>>, <<6, 37, 28>> >>
    /\ call.ret.num > call.ret.den

(***************************************************************************)
(* C21                                                                     *)
(***************************************************************************)
\* C21: get_contrast_ratio of a colour with itself is exactly 1.0: numerator and
\* denominator of the quotient are the same number, and the ratio as it would be
\* stored is 1.00.
C21_SameColourRatioOne ==
    (call.fn = "get_contrast_ratio" /\ call.args[1] = call.args[2]) =>
        /\ call.ret.num = call.ret.den
        /\ Round2(call.ret) = 100

\* get_contrast_ratio was called with the same mid-tone colour twice.
C21_Witness ==
    /\ call.fn = "get_contrast_ratio"
    /\ call.args = << <<92, 163, 184>>, <<92, 163, 184>> >>
    /\ call.ret.num = call.ret.den

(***************************************************************************)
(* C22                                                                     *)
(***************************************************************************)
\* The ratio is within 0.05 of 21.0.
About21(ratio) == 2095 * ratio.den <= 100 * ratio.num /\ 100 * ratio.num <= 2105 * ratio.den

\* C22: the ratio of white and black, in either order, is 21.0 within 0.05 and
\* passes the thresholds 4.5 and 3.0; an element with white text on a black
\* background is recorded with that ratio and passes.
C22_WhiteOnBlackIs21 ==
    /\ (/\ call.fn = "get_contrast_ratio"
        /\ call.args \in { << <<255, 255, 255>>, <<0, 0, 0>> >>,
                           << <<0, 0, 0>>, <<255, 255, 255>> >> })
          => (/\ About21(call.ret)
              /\ passes_check(call.ret, 450)
              /\ passes_check(call.ret, 300))
    /\ \A r \in AllRecords :
          (r.color = "rgb(255, 255, 255)" /\ r.backgroundColor = "rgb(0, 0, 0)")
              => (r.contrastRatio >= 2095 /\ r.contrastRatio <= 2105 /\ r.passes)

\* get_contrast_ratio was called for white on black.
C22_Witness ==
    /\ call.fn = "get_contrast_ratio"
    /\ call.args = << <<255, 255, 255>>, <<0, 0, 0>> >>
    /\ About21(call.ret)

(***************************************************************************)
(* C23                                                                     *)
(***************************************************************************)
\* Luminances the formula of the claim gives, in units of 1e-6: the three weights
\* (pure red, green, blue), greys on both sides of the branch limit 0.03928
\* (10/255 below, 11/255 above), and mid-tones of the power branch.
LuminanceReference ==
    { << <<255, 0, 0>>, 212600 >>, << <<0, 255, 0>>, 715200 >>, << <<0, 0, 255>>, 72200 >>,
      << <<1, 1, 1>>, 304 >>, << <<10, 10, 10>>, 3035 >>, << <<11, 11, 11>>, 3347 >>,
      << <<128, 128, 128>>, 215861 >>, << <<200, 200, 200>>, 577580 >>,
      << <<6, 37, 28>>, 14457 >>, << <<92, 163, 184>>, 319304 >> }

\* a and b differ by at most 6e-6, the resolution of the channel values.
Near(a, b) == a - b <= 6 /\ b - a <= 6

\* C23: the luminance of every colour lies in [0, 1], that of (0, 0, 0) is 0 and
\* that of (255, 255, 255) is 1; a grey whose normalised channel is at most
\* 0.03928 has the luminance c / 255 / 12.92; the reference colours have the
\* luminances the stated formula gives; and the luminance grows with the grey
\* level.
C23_LuminanceRange ==
    call.fn = "get_luminance" =>
        /\ call.ret.v >= 0 /\ call.ret.v <= 1000000
        /\ call.args = << <<0, 0, 0>> >> => call.ret.v = 0
        /\ call.args = << <<255, 255, 255>> >> => call.ret.v = 1000000
        /\ \A c \in 0..10 :
              call.args = << <<c, c, c>> >> =>
                  /\ call.ret.v * 32946 - c * 10000000 <= 200000
                  /\ c * 10000000 - call.ret.v * 32946 <= 200000
        /\ \A ref \in LuminanceReference :
              call.args = <<ref[1]>> => Near(call.ret.v, ref[2])
        /\ \A c \in 1..255 :
              call.args = << <<c, c, c>> >> =>
                  call.ret.v > get_luminance(c - 1, c - 1, c - 1)

\* get_luminance was called for white and returned 1.
C23_Witness ==
    /\ call.fn = "get_luminance"
    /\ call.args = << <<255, 255, 255>> >>
    /\ call.ret.v = 1000000

(***************************************************************************)
(* C24                                                                     *)
(***************************************************************************)
\* C24: every entry of all_results is counted as passing or as failing and never
\* as both, at any point of the run; and once the summary is made, the number of
\* elements checked is the number of entries and equals passing plus failing.
C24_PassFailPartition ==
    prog = "cc" =>
        /\ \A k \in DOMAIN all_results :
              /\ IsPass(all_results[k]) \/ IsFailure(all_results[k])
              /\ ~(IsPass(all_results[k]) /\ IsFailure(all_results[k]))
        /\ summary.kind = "contrast" =>
              /\ summary.total = Len(all_results)
              /\ summary.total = summary.passes + summary.failures

\* A summary with several passing and several failing entries was made.
C24_Witness ==
    /\ summary.kind = "contrast"
    /\ summary.passes >= 2 /\ summary.failures >= 2
    /\ summary.total = summary.passes + summary.failures

(***************************************************************************)
(* C25                                                                     *)
(***************************************************************************)
\* Checking element e raises: the driver faults reading its styles, one of its
\* colours cannot be parsed, or its colours are there and its font size cannot be
\* parsed.
Raises(e) ==
    \/ e.fault
    \/ IsRaise(parse_rgb(e.color))
    \/ IsRaise(resolve_background(e))
    \/ /\ parse_rgb(e.color).kind = "tuple"
       /\ resolve_background(e).kind = "tuple"
       /\ IsRaise(py_float(Replace(e.fontSize, "px", "")))

\* The check of selector i raises.
SelectorRaises(i) == Len(dom[i]) > 0 /\ dom[i][1].visible /\ Raises(dom[i][1])

\* C25: a selector whose check raises leaves no entry in the page's results,
\* which hold check dictionaries only; the step that checks it changes neither
\* the results collected so far nor anything else but the position in the
\* selector list, which moves to the next selector of the same page; and a page's
\* list is returned only after its last selector.
C25_SelectorErrorConfined ==
    /\ [](\A i \in Checked : SelectorRaises(i) => RecordsOf(i) = {})
    /\ [](prog = "cc" => \A k \in DOMAIN results : results[k].kind = "check")
    /\ [][ (InPage /\ sel <= Len(Jobs[job].selectors) /\ SelectorRaises(sel)) =>
               /\ results' = results
               /\ sel' = sel + 1
               /\ UNCHANGED <<pc, job, dom, log, nav_log, all_results, returned,
                              exit_status>> ]_vars
    /\ [][ (prog = "cc" /\ returned' # returned /\ nav_log' = nav_log) =>
               /\ sel = Len(Jobs[job].selectors) + 1
               /\ returned'[Len(returned')].results = results ]_vars

\* On one page a selector was recorded, the check of the next one raised, and a
\* selector after that was recorded again.
C25_Witness ==
    /\ InPage
    /\ \E i \in Checked : \E j \in Checked : \E k \in Checked :
          /\ i < j /\ j < k
          /\ RecordsOf(i) # {} /\ SelectorRaises(j) /\ RecordsOf(k) # {}

(***************************************************************************)
(* C26                                                                     *)
(***************************************************************************)
\* The audit of page j is over: the loop is at a later job or past the last one.
AuditOver(j) == j < job \/ Finishing

JsonWritten(j) == (Jobs[j].name \o ".json") \in files

\* C26: for every page whose audit is over, the page's JSON report was written
\* if and only if the page's result is in the run's results.
C26_JsonIffInResults ==
    prog = "aa" =>
        \A j \in DOMAIN Jobs : AuditOver(j) => (JsonWritten(j) <=> PageInResults(j))


(***************************************************************************)
(* C27                                                                     *)
(***************************************************************************)
PageFailed == \E k \in DOMAIN log : log[k].msg = "Error"

\* C27: in every page result contrast_violations is at most total_violations,
\* and the summary's total of contrast violations is at most its total of
\* violations, whichever pages were dropped.
C27_ContrastAtMostTotal ==
    prog = "aa" =>
        /\ \A k \in DOMAIN audit_results :
               /\ audit_results[k].contrast_violations >= 0
               /\ audit_results[k].contrast_violations <= audit_results[k].total_violations
        /\ summary.kind = "audit" =>
               /\ summary.total_contrast >= 0
               /\ summary.total_contrast <= summary.total_violations

C27_Witness ==
    /\ prog = "aa" /\ summary.kind = "audit"
    /\ PageFailed /\ Len(audit_results) >= 2
    /\ 0 < summary.total_contrast
    /\ summary.total_contrast < summary.total_violations
    /\ \E k \in DOMAIN audit_results :
           audit_results[k].contrast_violations = audit_results[k].total_violations

=============================================================================
